---- MODULE Spec2Model ----
(***************************************************************************)
(* smolpaste (src/src/main.rs): an authenticated paste service.            *)
(*   POST   /new?token=T          new_paste    (multipart upload)          *)
(*   DELETE /delete?token=T&id=I  delete_paste                             *)
(*   GET    /paste/<filename>     ServeDir over the pastes directory       *)
(* Every request is an independent task; a task runs from one await to the *)
(* next without interruption, so each action below is one such segment of  *)
(* a handler together with the database or filesystem operation it awaited.*)
(*                                                                         *)
(* Byte strings are sequences of blocks; one block stands for 2^31 equal   *)
(* bytes (TLC integers are 32-bit), so lengths are counted in blocks and   *)
(* an unsigned 32-bit byte count wraps at U32Blocks = 2^32 / 2^31 blocks.  *)
(***************************************************************************)
EXTENDS Integers, Sequences, FiniteSets, TLC

\* ------------------------------------------------------------- bounds
MaxReqs == 2        \* requests in flight at once (request slots)
MaxIds == 2         \* distinct UUIDs the generator can draw
MaxChunks == 2      \* chunks (blocks) in one upload body
MaxTokenRows == 2   \* rows of the duplicated token in the tokens table
MaxTime == 0        \* largest Unix timestamp the clock returns
MaxNameLen == 3     \* longest upload name of the file name derivation

\* ---------------------------------------------------- program constants
U32Blocks == 2      \* `total as u32`: u32 holds 2^32 bytes = 2 blocks

Slots == 1..MaxReqs
IdPool == <<"u1", "u2", "u3", "u4">>
Ids == {IdPool[i] : i \in 1..MaxIds}
Times == 0..MaxTime
NoId == "-"

\* The tokens table as provisioned by the operator: no row for "W", one row
\* for "T", MaxTokenRows rows for "D" (the table has no UNIQUE constraint).
TokenValues == {"W", "T", "D"}
TokenRows == <<[value |-> "T", created_at |-> 0]>>
             \o [i \in 1..MaxTokenRows |-> [value |-> "D", created_at |-> 0]]

\* The `filename` attribute of the first multipart field, as characters.
UploadNames == { <<"a">>, <<"a", ".", "t">> }

\* Every upload name of at most MaxNameLen characters over a letter, the
\* dot and the path separator.
PathChars == {"a", ".", "/"}
PathNames == UNION {[1..n -> PathChars] : n \in 0..MaxNameLen}

\* ------------------------------------------------------------ helpers
Last(s) == s[Len(s)]
Front(s) == SubSeq(s, 1, Len(s) - 1)
IsPrefix(p, s) == Len(p) <= Len(s) /\ SubSeq(s, 1, Len(p)) = p
Max(a, b) == IF a >= b THEN a ELSE b

\* --------------------------------------------- new_paste: stored filename
None == [some |-> FALSE, val |-> <<>>]
Some(v) == [some |-> TRUE, val |-> v]

\* Index of the last occurrence of character c in s, 0 when there is none.
RECURSIVE LastIndexOf(_, _)
LastIndexOf(s, c) ==
    IF s = <<>> THEN 0
    ELSE IF Last(s) = c THEN Len(s) ELSE LastIndexOf(Front(s), c)

\* std::path::Path::file_name: the final component; trailing separators and
\* trailing "." components are skipped; None for an empty path, "." or "..".
RECURSIVE PathFileName(_)
PathFileName(n) ==
    IF n = <<>> THEN None
    ELSE IF Last(n) = "/" THEN PathFileName(Front(n))
    ELSE LET base == SubSeq(n, LastIndexOf(n, "/") + 1, Len(n))
         IN  IF base = <<".">>
                THEN IF Len(n) = 1 THEN None ELSE PathFileName(Front(n))
             ELSE IF base = <<".", ".">> THEN None
             ELSE Some(base)

PathExtensionAnyDot(n) ==
    LET f == PathFileName(n)
    IN  IF ~f.some THEN None
        ELSE LET dot == LastIndexOf(f.val, ".")
             IN  IF dot <= 0 THEN None
                 ELSE Some(SubSeq(f.val, dot + 1, Len(f.val)))

\* std::path::Path::extension: the part of file_name after its last dot;
\* None without a dot or when the only dot is the first character.
PathExtension(n) ==
    LET f == PathFileName(n)
    IN  IF ~f.some THEN None
        ELSE LET dot == LastIndexOf(f.val, ".")
             IN  IF dot <= 1 THEN None
                 ELSE Some(SubSeq(f.val, dot + 1, Len(f.val)))

\* Lines 158-164: format!("{}.{}", id, e) or format!("{}", id).  The id
\* string stands for the 36-character canonical rendering of the UUID.
StoredFilename(id, name) ==
    LET e == PathExtension(name)
    IN  IF e.some THEN <<id, ".">> \o e.val ELSE <<id>>

\* Line 194: format!("{}/paste/{}", base_url, filename).
PasteUrl(filename) == <<"base_url", "/paste/">> \o filename

\* What next_field and file_name return for the first multipart field:
\* part "none" is Ok(None), "error" is Err(_), "some" is Ok(Some(field));
\* name is field.file_name().
NoField == [part |-> "-", name |-> None]
FirstFields(names) ==
    {[part |-> "none", name |-> None], [part |-> "error", name |-> None],
     [part |-> "some", name |-> None]}
    \cup {[part |-> "some", name |-> Some(n)] : n \in names}

FieldStatusNamed(f) == IF f.part # "some" THEN 400 ELSE 0

\* Lines 148-156: 0 lets the upload through, 400 rejects it.  (file_name is
\* a &str, so the extension is always valid text and line 161 is not taken.)
FieldStatus(f) ==
    IF f.part # "some" THEN 400
    ELSE IF ~f.name.some THEN 400
    ELSE 0

\* The name the stored filename is derived from.
FieldName(f) == IF f.name.some THEN f.name.val ELSE <<>>

\* ------------------------------------------------- token authentication
\* SELECT COUNT(*) FROM tokens WHERE value = $1
CountToken(rows, v) == Cardinality({i \in DOMAIN rows : rows[i].value = v})

\* The match on the lookup's result (lines 140-145 and 206-211): 0 lets
\* the request through, otherwise the status it is rejected with.  COUNT(*)
\* always yields a row, so the RowNotFound arm is never taken.
AuthStatusOpen(dbOk, count) ==
    IF ~dbOk THEN 500 ELSE IF count <= 1 THEN 0 ELSE 500

AuthStatusAtLeastOne(dbOk, count) ==
    IF ~dbOk THEN 500 ELSE IF count >= 1 THEN 0 ELSE 401

AuthStatus(dbOk, count) ==
    IF ~dbOk THEN 500
    ELSE IF count = 1 THEN 0
    ELSE IF count = 0 THEN 401
    ELSE 500

\* ------------------------------------------------------- pastes table
InsertAllowedAlways(rows, row) == TRUE

\* INSERT INTO pastes ...: id is the PRIMARY KEY, a second row with the
\* same id is refused.
InsertAllowed(rows, row) == \A p \in rows : p.id # row.id
InsertPasteNothing(rows, row) == rows

InsertPaste(rows, row) == rows \cup {row}

\* DELETE FROM pastes WHERE id = $1 RETURNING filename, one statement.
MatchingRowsAll(rows, id) == rows

MatchingRows(rows, id) == {p \in rows : p.id = id}
DeleteRowsKept(rows, id) == rows

DeleteRows(rows, id) == rows \ MatchingRows(rows, id)
ReturnedFilenameFromId(rows, id) == <<id>>

ReturnedFilename(rows, id) == (CHOOSE p \in MatchingRows(rows, id) : TRUE).filename

\* ------------------------------------------------- storage directory
\* tokio::fs::File::create: creates the file or truncates an existing one.
FileCreate(dir, name) ==
    [n \in DOMAIN dir \cup {name} |-> IF n = name THEN <<>> ELSE dir[n]]

WriteAtStart(content, pos, data) ==
    [i \in 1..Max(Len(content), Len(data)) |->
        IF i <= Len(data) THEN data[i] ELSE content[i]]

\* A write of `data` at offset `pos` of a file holding `content`; a gap
\* between the end of the file and pos reads as zero blocks ("z").
WriteAt(content, pos, data) ==
    LET n == Max(Len(content), pos + Len(data))
    IN  [i \in 1..n |->
            IF i > pos /\ i <= pos + Len(data) THEN data[i - pos]
            ELSE IF i <= Len(content) THEN content[i]
            ELSE "z"]

\* The directory after a handle at offset pos writes data to file `name`.
FileWrite(dir, name, pos, data) ==
    [dir EXCEPT ![name] = WriteAt(dir[name], pos, data)]

RemoveFileKept(dir, name) == dir

\* tokio::fs::remove_file
RemoveFile(dir, name) == [n \in DOMAIN dir \ {name} |-> dir[n]]

\* ServeDir::new(PASTES_DIRECTORY) nested at /paste: the file's bytes, or
\* 404 when no file has that name.
ServeGet(dir, path) ==
    IF path \in DOMAIN dir THEN [status |-> 200, body |-> dir[path]]
    ELSE [status |-> 404, body |-> <<>>]

OnErrorRollback(dir, t) ==
    IF t.made /\ t.filename \in DOMAIN dir THEN RemoveFile(dir, t.filename)
    ELSE dir

\* Lines 166 and 191: map_err and `?` return the error status; the
\* directory is left as the failed request made it.
OnError(dir, t) == dir

OnDropCleanup(dir, t) ==
    IF t.made /\ t.filename \in DOMAIN dir THEN RemoveFile(dir, t.filename)
    ELSE dir

\* The task's future is dropped: its locals are dropped (the file handle
\* is closed), the directory is left as it is.
OnDrop(dir, t) == dir

\* Line 248: `total as u32`, the 64-bit count narrowed to 32 bits.
AsU32(total) == total % U32Blocks

\* ---------------------------------------------------------------- state
VARIABLES
    tokens,    \* the tokens table: a sequence of rows (never written here)
    pastes,    \* the pastes table: a set of rows, id is the primary key
    files,     \* the pastes directory: file name -> contents
    req,       \* request slot -> the task serving the request in that slot
    drawn,     \* the number of UUIDs new_v4 has returned so far
    live,      \* history: filename -> body, for every upload answered 200
               \*   whose row no delete has removed since
    popped,    \* history: ids whose row a delete has removed
    deleted,   \* history: <<id, filename>> of every delete answered 200
    dirty      \* history: some operation failed, a stream broke off or a
               \*   client disconnected

vars == <<tokens, pastes, files, req, drawn, live, popped, deleted, dirty>>

\* A free slot.  Fields of a task:
\*   kind, pc   the handler and the await it is suspended at
\*   token, id  query parameters (id of delete_paste), or the generated id
\*   upload     new_paste: the first multipart field as it was read
\*   filename   new_paste: the stored filename; delete_paste: the returned one
\*   sent       the chunks the body stream has yielded so far
\*   buf        bytes accepted by the BufWriter and not yet written out
\*   pos        offset of the open file handle
\*   linked     the task holds an open handle on the directory's file of
\*              that name (not on a file unlinked since it was opened)
\*   written    stream_to_file's result
\*   status, body  the response (status 0: none yet)
\*   authed     history: the token lookup let the request through
\*   made       history: new_paste created its file
\*   complete   history: new_paste's copy ran to the end of the stream
\*   seen       history: what a GET's path was when it was served: "live"
\*              (an upload answered 200, row not removed), "deleted" (a
\*              delete of it answered 200) or "other"; for a delete_paste,
\*              "failed" when it arrived after a delete of its id had removed
\*              the row and been answered 500
\*   fault      history: the database or the filesystem failed an operation
\*              of this request, its body stream broke off, or the client
\*              disconnected
\*   sawRow     history: delete_paste arrived while a row with its id existed
\*   didPop     history: this delete_paste removed the row
Idle ==
    [kind |-> "idle", pc |-> "idle", token |-> "-", id |-> NoId,
     upload |-> NoField, filename |-> <<>>, sent |-> <<>>, buf |-> <<>>,
     pos |-> 0, linked |-> FALSE, written |-> 0,
     status |-> 0, body |-> <<>>,
     authed |-> FALSE, made |-> FALSE, complete |-> FALSE, seen |-> "-",
     fault |-> FALSE, sawRow |-> FALSE, didPop |-> FALSE]

Init ==
    /\ tokens = TokenRows
    /\ pastes = {}
    /\ files = <<>>
    /\ req = [r \in Slots |-> Idle]
    /\ drawn = 0
    /\ live = <<>>
    /\ popped = {}
    /\ deleted = {}
    /\ dirty = FALSE

\* The task ends: its handle, writer and locals are dropped.
Ended(t) ==
    [t EXCEPT !.buf = <<>>, !.pos = 0, !.linked = FALSE, !.written = 0]

Respond(t, code, text) ==
    [Ended(t) EXCEPT !.pc = "done", !.status = code, !.body = text]
Fail(t, code) == [Respond(t, code, <<>>) EXCEPT !.fault = TRUE]

\* A request takes the lowest free slot (slots are interchangeable).
Free(r) == req[r].kind = "idle" /\ \A s \in Slots : s < r => req[s].kind # "idle"

\* Uploads that have not drawn their id yet.
AwaitingId == {r \in Slots : req[r].kind = "new" /\ req[r].pc = "auth"}

\* The ids new_v4 can return: version 4 UUIDs are taken to be unique
\* (unique = TRUE), and as they are opaque the next unused one of the pool
\* stands for any of them; unique = FALSE lets the generator repeat itself.
\* MaxIds bounds the number of ids drawn.
IdChoices(unique) == IF unique THEN {IdPool[drawn + 1]} ELSE Ids

\* ------------------------------------------------------------ new_paste
\* POST /new?token=... arrives; the handler issues the token lookup.  (No
\* more uploads arrive than the generator has ids to draw.)
NewArrive(r) ==
    /\ Free(r)
    /\ drawn + Cardinality(AwaitingId) < MaxIds
    /\ \E tok \in TokenValues :
         req' = [req EXCEPT ![r] = [Idle EXCEPT !.kind = "new", !.pc = "auth",
                                                !.token = tok]]
    /\ UNCHANGED <<tokens, pastes, files, drawn, live, popped, deleted, dirty>>

\* Lines 136-147: the lookup returns; on success the id is generated and
\* the first multipart field is awaited.
NewAuth(r, unique) ==
    /\ req[r].kind = "new" /\ req[r].pc = "auth"
    /\ \E dbOk \in BOOLEAN :
         LET st == AuthStatus(dbOk, CountToken(tokens, req[r].token))
         IN  IF st = 0
             THEN \E id \in IdChoices(unique) :
                    /\ req' = [req EXCEPT ![r].pc = "field", ![r].id = id,
                                          ![r].authed = TRUE]
                    /\ drawn' = drawn + 1
                    /\ dirty' = dirty
             ELSE /\ req' = [req EXCEPT ![r] =
                               IF dbOk THEN Respond(@, st, <<>>) ELSE Fail(@, st)]
                  /\ drawn' = drawn
                  /\ dirty' = (dirty \/ ~dbOk)
    /\ UNCHANGED <<tokens, pastes, files, live, popped, deleted>>

\* Lines 148-166: next_field returns.  No field, a parse error or a field
\* without filename answer 400; otherwise the stored filename is built and
\* stream_to_file starts by creating the file.
NewField(r, names) ==
    /\ req[r].kind = "new" /\ req[r].pc = "field"
    /\ \E f \in FirstFields(names) :
         req' = [req EXCEPT ![r] =
                   IF FieldStatus(f) # 0
                   THEN Respond([@ EXCEPT !.upload = f], FieldStatus(f), <<>>)
                   ELSE [@ EXCEPT !.pc = "create", !.upload = f,
                                  !.filename =
                                      StoredFilename(req[r].id, FieldName(f))]]
    /\ UNCHANGED <<tokens, pastes, files, drawn, live, popped, deleted, dirty>>

\* Lines 243-244: File::create returns.
NewCreate(r) ==
    /\ req[r].kind = "new" /\ req[r].pc = "create"
    /\ \/ /\ files' = FileCreate(files, req[r].filename)
          /\ req' = [req EXCEPT ![r].pc = "copy", ![r].linked = TRUE,
                                ![r].made = TRUE]
          /\ dirty' = dirty
       \/ /\ files' = OnError(files, req[r])
          /\ req' = [req EXCEPT ![r] = Fail(@, 500)]
          /\ dirty' = TRUE
    /\ UNCHANGED <<tokens, pastes, drawn, live, popped, deleted>>

\* The directory after task t writes `data` through its handle: nothing
\* changes in the directory once the handle's file has been unlinked.
HandleWrite(dir, t, data) ==
    IF t.linked THEN FileWrite(dir, t.filename, t.pos, data) ELSE dir

\* The bodies of different uploads differ: every block an upload sends
\* carries data of its own, named after the upload's id.
BlockOf(t) == t.id

FlushLost(dir, t) == dir

\* The end of tokio::io::copy: the writer is flushed, what the BufWriter
\* still holds is written to the file.
Flush(dir, t) == HandleWrite(dir, t, t.buf)

\* Line 247, one round of tokio::io::copy: the stream yields a chunk, which
\* goes to the BufWriter; the bytes the BufWriter held before are written to
\* the file to make room.  A write error ends the copy: 500.
NewChunk(r) ==
    /\ req[r].kind = "new" /\ req[r].pc = "copy"
    /\ Len(req[r].sent) < MaxChunks
    /\ LET c == BlockOf(req[r])
       IN  \/ /\ files' = HandleWrite(files, req[r], req[r].buf)
              /\ req' = [req EXCEPT ![r].sent = Append(@, c),
                                    ![r].pos = @ + Len(req[r].buf),
                                    ![r].buf = <<c>>]
              /\ dirty' = dirty
           \/ /\ files' = OnError(files, req[r])
              /\ req' = [req EXCEPT ![r] =
                                Fail([@ EXCEPT !.sent = Append(@, c)], 500)]
              /\ dirty' = TRUE
    /\ UNCHANGED <<tokens, pastes, drawn, live, popped, deleted>>

\* Lines 247-248 and 166-191: the stream ends; copy flushes the writer and
\* returns the total, which is narrowed to u32; the handler reads the clock
\* and issues the INSERT.  Or the stream yields an error: the BufWriter is
\* dropped with what it holds, and the handler answers 500.
NewEnd(r) ==
    /\ req[r].kind = "new" /\ req[r].pc = "copy"
    /\ \/ /\ files' = Flush(files, req[r])
          /\ req' = [req EXCEPT ![r].pc = "insert",
                                ![r].pos = @ + Len(req[r].buf),
                                ![r].buf = <<>>,
                                ![r].linked = FALSE,
                                ![r].complete = TRUE,
                                ![r].written = AsU32(Len(req[r].sent))]
          /\ dirty' = dirty
       \/ /\ files' = OnError(files, req[r])
          /\ req' = [req EXCEPT ![r] = Fail(@, 500)]
          /\ dirty' = TRUE
    /\ UNCHANGED <<tokens, pastes, drawn, live, popped, deleted>>

PasteInfoBareName(t, now) ==
    [id |-> t.id, size |-> t.written, filename |-> <<t.id>>,
     timestamp |-> now]

\* Lines 172-177: the PasteInfo the handler inserts.
PasteInfo(t, now) ==
    [id |-> t.id, size |-> t.written, filename |-> t.filename,
     timestamp |-> now]

\* Lines 170-194: the row is stamped with the clock's time and the
\* INSERT returns; 200 with the paste's URL; or 500 when a row has that id
\* already, or when the database failed.
NewInsert(r) ==
    /\ req[r].kind = "new" /\ req[r].pc = "insert"
    /\ \/ /\ \E now \in Times :
               /\ InsertAllowed(pastes, PasteInfo(req[r], now))
               /\ pastes' = InsertPaste(pastes, PasteInfo(req[r], now))
          /\ req' = [req EXCEPT ![r] = Respond(@, 200, PasteUrl(req[r].filename))]
          /\ live' = [f \in DOMAIN live \cup {req[r].filename} |->
                        IF f = req[r].filename THEN req[r].sent ELSE live[f]]
          /\ files' = files
          /\ dirty' = dirty
       \/ /\ \A now \in Times : ~InsertAllowed(pastes, PasteInfo(req[r], now))
          /\ pastes' = pastes
          /\ req' = [req EXCEPT ![r] = Respond(@, 500, <<>>)]
          /\ live' = live
          /\ files' = OnError(files, req[r])
          /\ dirty' = TRUE
       \/ /\ pastes' = pastes
          /\ req' = [req EXCEPT ![r] = Fail(@, 500)]
          /\ live' = live
          /\ files' = OnError(files, req[r])
          /\ dirty' = TRUE
    /\ UNCHANGED <<tokens, drawn, popped, deleted>>

\* --------------------------------------------------------- delete_paste
\* A delete of id has removed the row and been answered 500.
AfterFailedDelete(id) ==
    \E s \in Slots :
        /\ req[s].kind = "delete" /\ req[s].id = id /\ req[s].didPop
        /\ req[s].pc = "done" /\ req[s].status = 500

\* DELETE /delete?token=...&id=... arrives; the handler issues the lookup.
DelArrive(r) ==
    /\ Free(r)
    /\ \E tok \in TokenValues, id \in Ids :
         req' = [req EXCEPT ![r] =
                   [Idle EXCEPT !.kind = "delete", !.pc = "auth", !.token = tok,
                                !.id = id,
                                !.sawRow = (MatchingRows(pastes, id) # {}),
                                !.seen = IF AfterFailedDelete(id)
                                         THEN "failed" ELSE "-"]]
    /\ UNCHANGED <<tokens, pastes, files, drawn, live, popped, deleted, dirty>>

\* Lines 202-213: the lookup returns; on success the DELETE is issued.
DelAuth(r) ==
    /\ req[r].kind = "delete" /\ req[r].pc = "auth"
    /\ \E dbOk \in BOOLEAN :
         LET st == AuthStatus(dbOk, CountToken(tokens, req[r].token))
         IN  /\ req' = [req EXCEPT ![r] =
                          IF st = 0 THEN [@ EXCEPT !.pc = "pop", !.authed = TRUE]
                          ELSE IF dbOk THEN Respond(@, st, <<>>)
                          ELSE Fail(@, st)]
             /\ dirty' = (dirty \/ ~dbOk)
    /\ UNCHANGED <<tokens, pastes, files, drawn, live, popped, deleted>>

\* Lines 213-224: DELETE ... RETURNING returns: the row is gone and its
\* filename is unlinked next; or no row matched (404); or the statement
\* failed (500).
DelPop(r) ==
    /\ req[r].kind = "delete" /\ req[r].pc = "pop"
    /\ \/ /\ MatchingRows(pastes, req[r].id) # {}
          /\ LET fn == ReturnedFilename(pastes, req[r].id)
             IN  /\ req' = [req EXCEPT ![r].pc = "unlink", ![r].filename = fn,
                                       ![r].didPop = TRUE]
                 /\ live' = [f \in DOMAIN live \ {fn} |-> live[f]]
          /\ pastes' = DeleteRows(pastes, req[r].id)
          /\ popped' = popped \cup {req[r].id}
          /\ dirty' = dirty
       \/ /\ MatchingRows(pastes, req[r].id) = {}
          /\ req' = [req EXCEPT ![r] = Respond(@, 404, <<>>)]
          /\ UNCHANGED <<pastes, live, popped, dirty>>
       \/ /\ req' = [req EXCEPT ![r] = Fail(@, 500)]
          /\ dirty' = TRUE
          /\ UNCHANGED <<pastes, live, popped>>
    /\ UNCHANGED <<tokens, files, drawn, deleted>>

\* The tasks after the file `name` is unlinked: handles that were open on
\* it keep the unlinked file.
Unlinked(tasks, name) ==
    [s \in DOMAIN tasks |->
        IF tasks[s].linked /\ tasks[s].filename = name
        THEN [tasks[s] EXCEPT !.linked = FALSE] ELSE tasks[s]]

OnUnlinkErrorReinsert(rows, t) ==
    rows \cup {[id |-> t.id, size |-> 0, filename |-> t.filename,
                timestamp |-> 0]}

\* Line 225: remove_file's error is mapped to 500 and returned; the pastes
\* table is left as the DELETE made it.
OnUnlinkError(rows, t) == rows

\* Lines 224-227: remove_file returns: 200; or 500 when there is no such
\* file, or when the filesystem refused.
DelUnlink(r) ==
    /\ req[r].kind = "delete" /\ req[r].pc = "unlink"
    /\ \/ /\ req[r].filename \in DOMAIN files
          /\ files' = RemoveFile(files, req[r].filename)
          /\ req' = [Unlinked(req, req[r].filename) EXCEPT
                       ![r] = Respond(@, 200, <<>>)]
          /\ deleted' = deleted \cup {<<req[r].id, req[r].filename>>}
          /\ pastes' = pastes
          /\ dirty' = dirty
       \/ /\ req[r].filename \notin DOMAIN files
          /\ files' = files
          /\ req' = [req EXCEPT ![r] = Respond(@, 500, <<>>)]
          /\ deleted' = deleted
          /\ pastes' = OnUnlinkError(pastes, req[r])
          /\ dirty' = TRUE
       \/ /\ files' = files
          /\ req' = [req EXCEPT ![r] = Fail(@, 500)]
          /\ deleted' = deleted
          /\ pastes' = OnUnlinkError(pastes, req[r])
          /\ dirty' = TRUE
    /\ UNCHANGED <<tokens, drawn, live, popped>>

\* ------------------------------------------------------------ serve GET
\* The file names a GET can ask for.
GetPaths == {StoredFilename(id, n) : id \in Ids, n \in UploadNames}

\* GET /paste/<path>: served in one step from the directory as it is.
Get(r) ==
    /\ Free(r)
    /\ \E path \in GetPaths :
         LET res == ServeGet(files, path)
             was == IF path \in DOMAIN live THEN "live"
                    ELSE IF \E d \in deleted : d[2] = path THEN "deleted"
                    ELSE "other"
         IN  req' = [req EXCEPT ![r] =
                       Respond([Idle EXCEPT !.kind = "get", !.filename = path,
                                            !.seen = was],
                               res.status, res.body)]
    /\ UNCHANGED <<tokens, pastes, files, drawn, live, popped, deleted, dirty>>

\* ------------------------------------------------------ the connection
InFlight(t) == t.kind \in {"new", "delete"} /\ t.pc \notin {"done", "dropped"}

\* The client disconnects: the task is dropped at the await it is suspended
\* at; the file handle and the BufWriter go with it, nothing is undone.
Disconnect(r) ==
    /\ InFlight(req[r])
    /\ req' = [req EXCEPT ![r] =
                      [Idle EXCEPT !.kind = req[r].kind, !.pc = "dropped",
                                   !.token = req[r].token, !.id = req[r].id,
                                   !.upload = req[r].upload,
                                   !.filename = req[r].filename,
                                   !.sent = req[r].sent, !.fault = TRUE,
                                   !.authed = req[r].authed,
                                   !.made = req[r].made,
                                   !.complete = req[r].complete]]
    /\ files' = OnDrop(files, req[r])
    /\ dirty' = TRUE
    /\ UNCHANGED <<tokens, pastes, drawn, live, popped, deleted>>

\* The response has been sent (or the task dropped): the slot is free again.
Release(r) ==
    /\ req[r].pc \in {"done", "dropped"}
    /\ req' = [req EXCEPT ![r] = Idle]
    /\ UNCHANGED <<tokens, pastes, files, drawn, live, popped, deleted, dirty>>

\* ------------------------------------------------------- specifications
Next ==
    \E r \in Slots :
        \/ NewArrive(r) \/ NewAuth(r, TRUE) \/ NewField(r, UploadNames)
        \/ NewCreate(r) \/ NewChunk(r) \/ NewEnd(r) \/ NewInsert(r)
        \/ DelArrive(r) \/ DelAuth(r) \/ DelPop(r) \/ DelUnlink(r)
        \/ Get(r) \/ Disconnect(r) \/ Release(r)

\* The service with version 4 UUIDs taken to be unique.
Spec == Init /\ [][Next]_vars

NextRepeat ==
    \E r \in Slots :
        \/ NewArrive(r) \/ NewAuth(r, FALSE) \/ NewField(r, UploadNames)
        \/ NewCreate(r) \/ NewChunk(r) \/ NewEnd(r) \/ NewInsert(r)
        \/ DelArrive(r) \/ DelAuth(r) \/ DelPop(r) \/ DelUnlink(r)
        \/ Get(r) \/ Disconnect(r) \/ Release(r)

\* The service with a generator that may return an id a second time.
SpecRepeat == Init /\ [][NextRepeat]_vars

\* The upload path alone, for every upload name of PathNames.
NextNames ==
    \E r \in Slots :
        \/ NewArrive(r) \/ NewAuth(r, TRUE) \/ NewField(r, PathNames)
        \/ NewCreate(r) \/ NewChunk(r) \/ NewEnd(r) \/ NewInsert(r)
        \/ Release(r)

SpecNames == Init /\ [][NextNames]_vars

\* ================================================================ claims
RowsWithId(id) == {p \in pastes : p.id = id}
RowFilenames == {p.filename : p \in pastes}
IsRequest(t) == t.kind \in {"new", "delete"}
Quiescent == \A r \in Slots : req[r].pc \in {"idle", "done", "dropped"}

\* C1: a POST /new or DELETE /delete whose token has no row in the tokens
\* table never gets past the token lookup: no step it takes, from its
\* arrival to its response, in any interleaving with other requests,
\* changes the storage directory or the pastes table, and its response is
\* 401 (500 only when the lookup itself fails with a storage error).
C1_AbsentTokenRejected ==
    [][\A r \in Slots :
         LET t == IF IsRequest(req'[r]) THEN req'[r] ELSE req[r]
         IN  (IsRequest(t) /\ CountToken(tokens, t.token) = 0
                /\ req'[r] # req[r])
             => /\ files' = files
                /\ pastes' = pastes
                /\ req'[r].pc \in {"auth", "done", "dropped", "idle"}
                /\ (req'[r].pc = "done" /\ ~req'[r].fault
                      => req'[r].status = 401)]_vars

\* A request with an unknown token is answered 401 while an upload is being
\* copied to a file.
C1_Witness ==
    \E r, s \in Slots :
        /\ IsRequest(req[r]) /\ req[r].token = "W"
        /\ req[r].pc = "done" /\ req[r].status = 401
        /\ req[s].kind = "new" /\ req[s].pc = "copy"

\* Two deletes of one paste, both arrived while its row existed.
RacingDeletes(r1, r2) ==
    /\ r1 # r2
    /\ req[r1].kind = "delete" /\ req[r2].kind = "delete"
    /\ req[r1].id = req[r2].id
    /\ req[r1].sawRow /\ req[r2].sawRow
    /\ req[r1].authed /\ req[r2].authed
    /\ req[r1].pc = "done" /\ req[r2].pc = "done"
    /\ ~req[r1].fault /\ ~req[r2].fault

\* C2: when two authenticated DELETE /delete requests for the same existing
\* paste id run concurrently (both arrived while the row existed, no other
\* request removed the row, no operation of either failed), exactly one of
\* them responds 200 and the other 404.
C2_OneDeleteWins ==
    \A r1, r2 \in Slots :
        (/\ RacingDeletes(r1, r2)
         /\ req[r1].id \in popped => (req[r1].didPop \/ req[r2].didPop))
        => {req[r1].status, req[r2].status} = {200, 404}

C2_Witness ==
    \E r1, r2 \in Slots :
        /\ RacingDeletes(r1, r2)
        /\ req[r1].status = 200 /\ req[r2].status = 404

\* C3: once all requests have completed, after any sequence and interleaving
\* of requests in which nothing failed and no client disconnected (valid
\* uploads in particular), the names of the files in the storage directory
\* are exactly the filename values of the pastes rows, one file per row.
C3_FilesMatchRows ==
    (Quiescent /\ ~dirty)
    => /\ DOMAIN files = RowFilenames
       /\ Cardinality(DOMAIN files) = Cardinality(pastes)

\* Two uploads have completed and both pastes are stored.
C3_Witness ==
    /\ Quiescent /\ ~dirty
    /\ Cardinality(pastes) = 2
    /\ \E f \in DOMAIN files : Len(f) > 1

\* C4: after an upload with body B has been answered 200 with the URL
\* <base_url>/paste/<filename>, and until a delete removes that paste's row,
\* a GET of /paste/<filename> returns 200 with exactly B.
C4_RoundTrip ==
    \A f \in DOMAIN live :
        ServeGet(files, f) = [status |-> 200, body |-> live[f]]

\* A GET issued after the 200 of a two-chunk upload returned its body.
C4_Witness ==
    \E r \in Slots :
        /\ req[r].kind = "get" /\ req[r].seen = "live"
        /\ req[r].filename \in DOMAIN live
        /\ req[r].status = 200
        /\ req[r].body = live[req[r].filename]
        /\ Len(req[r].body) = 2

\* C5: after an authenticated DELETE /delete of an existing paste has been
\* answered 200, no pastes row has that id, no file has its filename, and
\* every GET of its URL returns 404.
C5_DeletedStaysGone ==
    \A d \in deleted :
        /\ RowsWithId(d[1]) = {}
        /\ d[2] \notin DOMAIN files
        /\ ServeGet(files, d[2]).status = 404

\* A GET issued after the delete's 200 was answered 404.
C5_Witness ==
    \E r \in Slots, d \in deleted :
        /\ req[r].kind = "get" /\ req[r].seen = "deleted"
        /\ req[r].filename = d[2]
        /\ req[r].status = 404

\* C6: when the DELETE statement of an authenticated DELETE /delete finds no
\* pastes row with the request's id, the request responds 404 (500 only when
\* the statement itself fails), no row is removed and no file is unlinked:
\* the pastes table and the storage directory stay as they are.
C6_UnknownIdNotFound ==
    [][\A r \in Slots :
         (/\ req[r].kind = "delete" /\ req[r].pc = "pop"
          /\ RowsWithId(req[r].id) = {}
          /\ req'[r] # req[r])
         => /\ pastes' = pastes
            /\ files' = files
            /\ req'[r].pc \in {"done", "dropped"}
            /\ (req'[r].pc = "done" /\ ~req'[r].fault
                  => req'[r].status = 404)]_vars

\* A delete of an id without row is answered 404 while another paste is
\* stored.
C6_Witness ==
    \E r \in Slots :
        /\ req[r].kind = "delete" /\ req[r].authed /\ ~req[r].sawRow
        /\ req[r].pc = "done" /\ req[r].status = 404
        /\ pastes # {} /\ DOMAIN files # {}

\* C7: a token is valid iff at least one tokens row has its value: a /new
\* or /delete request whose token has n >= 1 rows passes authentication,
\* for every n, and one whose token has no row is rejected (requests whose
\* lookup failed with a storage error aside).
C7_ValidIffSomeRow ==
    \A r \in Slots :
        (/\ IsRequest(req[r]) /\ req[r].pc # "auth"
         /\ req[r].authed \/ ~req[r].fault)
        => (req[r].authed <=> CountToken(tokens, req[r].token) >= 1)

\* C8: the size of every pastes row equals the length of the file the
\* upload wrote, for every body length, 2^32 bytes and more included.
C8_SizeIsFileLength ==
    \A p \in pastes :
        p.filename \in DOMAIN files => p.size = Len(files[p.filename])

\* C9: the create step never overwrites: when a file of the upload's
\* filename exists already as the upload opens its destination, the creation
\* fails, the upload responds 500 and the file keeps its contents.
C9_CreateNeverOverwrites ==
    [][\A r \in Slots :
         (/\ req[r].kind = "new" /\ req[r].pc = "create"
          /\ req[r].filename \in DOMAIN files
          /\ req'[r] # req[r] /\ req'[r].pc # "dropped")
         => /\ req'[r].pc = "done" /\ req'[r].status = 500
            /\ req[r].filename \in DOMAIN files'
            /\ files'[req[r].filename] = files[req[r].filename]]_vars

\* An upload that has a destination and has not been answered 200: in
\* progress, failed or dropped.
Unanswered(t) == t.kind = "new" /\ t.filename # <<>> /\ t.status # 200

\* C10 as claimed: a GET of an upload's destination returns 404 or the
\* complete uploaded body, never an empty or partial prefix of the body of
\* an upload that is in progress or has failed.
C10_NeverPartial ==
    \A r \in Slots :
        Unanswered(req[r])
        => LET g == ServeGet(files, req[r].filename)
           IN  \/ g.status = 404
               \/ req[r].complete /\ g.body = req[r].sent

\* C10 as amended: a GET of an upload's destination returns 404 until the
\* file is created, and from then on until the upload is answered 200 it
\* returns 200 with the bytes written so far: a prefix, possibly empty or
\* partial, of the body streamed so far while the upload is in progress, has
\* failed or was dropped, and the complete body once the copy has finished.
C10_PrefixUntilComplete ==
    \A r \in Slots :
        Unanswered(req[r])
        => LET g == ServeGet(files, req[r].filename)
           IN  IF ~req[r].made THEN g.status = 404
               ELSE /\ g.status = 200
                    /\ IsPrefix(g.body, req[r].sent)
                    /\ req[r].complete => g.body = req[r].sent

\* A GET is answered with the first chunk alone of an upload that has
\* streamed two chunks and is still copying.
C10_Witness ==
    \E r, s \in Slots :
        /\ req[r].kind = "new" /\ req[r].pc = "copy" /\ Len(req[r].sent) = 2
        /\ req[s].kind = "get" /\ req[s].filename = req[r].filename
        /\ req[s].status = 200 /\ Len(req[s].body) = 1
        /\ ServeGet(files, req[r].filename).body = req[s].body

\* The basename of an upload name: its last path component, where "/"
\* separates components and "." components do not count; empty when the
\* name has no such component or when that component is "..", the parent
\* directory.
LoneDot(n, i) ==
    /\ n[i] = "."
    /\ i = 1 \/ n[i - 1] = "/"
    /\ i = Len(n) \/ n[i + 1] = "/"
NameChars(n) == {i \in 1..Len(n) : n[i] # "/" /\ ~LoneDot(n, i)}
BaseName(n) ==
    IF NameChars(n) = {} THEN <<>>
    ELSE LET e == CHOOSE i \in NameChars(n) : \A j \in NameChars(n) : j <= i
             b == CHOOSE i \in 1..e :
                    /\ \A k \in i..e : n[k] # "/"
                    /\ i = 1 \/ n[i - 1] = "/"
         IN  IF SubSeq(n, b, e) = <<".", ".">> THEN <<>> ELSE SubSeq(n, b, e)
Dots(b) == {i \in 1..Len(b) : b[i] = "."}
AfterFinalDot(b) ==
    SubSeq(b, (CHOOSE i \in Dots(b) : \A j \in Dots(b) : j <= i) + 1, Len(b))

\* Uploads whose stored filename has been derived from an upload name.
Named(t) == t.kind = "new" /\ t.upload.part = "some" /\ t.upload.name.some
                /\ t.filename # <<>>

\* C11 as claimed: for every upload with generated id U and upload name N the
\* stored filename begins with U; if the basename of N has a final '.', with
\* e the characters after it, the stored filename is U, '.', e; otherwise the
\* stored filename is exactly U and has no dot; also for names that end in
\* '.', start with '.' or contain '/'.
C11_AfterFinalDot ==
    \A r \in Slots :
        Named(req[r])
        => LET b == BaseName(req[r].upload.name.val)
               U == req[r].id
           IN  /\ req[r].filename[1] = U
               /\ IF Dots(b) # {}
                  THEN req[r].filename = <<U, ".">> \o AfterFinalDot(b)
                  ELSE req[r].filename = <<U>>

\* C11 as amended: as claimed, except that a basename whose only '.' is its
\* first character has no extension: its stored filename is exactly U.  A
\* successful upload's URL ends in the stored filename.
C11_ExtensionOfPath ==
    \A r \in Slots :
        Named(req[r])
        => LET b == BaseName(req[r].upload.name.val)
               U == req[r].id
               fn == IF Dots(b) \ {1} # {}
                     THEN <<U, ".">> \o AfterFinalDot(b)
                     ELSE <<U>>
           IN  /\ req[r].filename[1] = U
               /\ req[r].filename = fn
               /\ Dots(b) \ {1} = {} => \A i \in 1..Len(fn) : fn[i] # "."
               /\ req[r].status = 200
                    => req[r].body = <<"base_url", "/paste/">> \o fn

\* An upload named "/.a" (a '/' and a basename starting with '.') succeeded
\* and is stored under its bare id, while one named "a." is stored as "U.".
C11_Witness ==
    \E r, s \in Slots :
        /\ req[r].kind = "new" /\ req[r].status = 200
        /\ req[r].upload.name = Some(<<"/", ".", "a">>)
        /\ req[r].filename = <<req[r].id>>
        /\ req[s].kind = "new" /\ req[s].status = 200
        /\ req[s].upload.name = Some(<<"a", ".">>)
        /\ req[s].filename = <<req[s].id, ".">>

\* Authenticated uploads whose body had no multipart field, failed to parse,
\* or whose first field had no filename attribute.
BadBody(t) ==
    /\ t.kind = "new" /\ t.authed
    /\ \/ t.upload.part \in {"none", "error"}
       \/ t.upload.part = "some" /\ ~t.upload.name.some

\* C12: an authenticated POST /new whose body has no multipart field, fails
\* to parse, or whose first field has no filename attribute responds 400 with
\* an empty body, has created no file (no file carries its id) and has
\* inserted no pastes row.
C12_BadBodyRejected ==
    \A r \in Slots :
        BadBody(req[r])
        => /\ req[r].pc = "done" /\ req[r].status = 400 /\ req[r].body = <<>>
           /\ ~req[r].made /\ req[r].filename = <<>>
           /\ RowsWithId(req[r].id) = {}
           /\ \A f \in DOMAIN files : f[1] # req[r].id

\* A body whose first field has no filename attribute was answered 400
\* while another upload's paste is stored.
C12_Witness ==
    \E r \in Slots :
        /\ BadBody(req[r]) /\ req[r].upload.part = "some" /\ req[r].status = 400
        /\ pastes # {} /\ DOMAIN files # {}

\* C13: no step of a create, delete or serve request inserts, updates or
\* deletes a tokens row, and none changes an existing pastes row: as long as
\* the table holds a row with some id, it is the row that was inserted, with
\* the same size, filename and timestamp.
C13_RowsNeverMutated ==
    [][/\ tokens' = tokens
       /\ \A p \in pastes : \A q \in pastes' : q.id = p.id => q = p]_vars

\* A second upload drew the id of a stored paste and finished its copy under
\* another filename; its INSERT was refused and the stored row is as it was.
C13_Witness ==
    \E r \in Slots :
        /\ req[r].kind = "new" /\ req[r].pc = "done" /\ req[r].status = 500
        /\ req[r].complete /\ ~req[r].fault
        /\ \E p \in pastes : p.id = req[r].id /\ p.filename # req[r].filename
        /\ tokens = TokenRows

\* C14: the steps of a request occur in strict sequence.  POST /new: a file
\* appears only by an authenticated upload that has no row; a row is
\* inserted only by an upload that is authenticated, has created its file
\* and has finished its copy, and has not responded; the 200 with the URL
\* comes with the row in the table.  DELETE /delete: a row is removed only
\* by an authenticated delete that has not responded; a file is unlinked only
\* by a delete that has removed its row before; the 200 comes with the file
\* unlinked.
C14_StepsInSequence ==
    [][/\ \A f \in DOMAIN files' \ DOMAIN files :
            \E r \in Slots :
                /\ req[r].kind = "new" /\ req[r].authed /\ req[r].status = 0
                /\ req[r].filename = f /\ ~req[r].made /\ ~req[r].complete
                /\ RowsWithId(req[r].id) = {}
       /\ \A p \in pastes' \ pastes :
            \E r \in Slots :
                /\ req[r].kind = "new" /\ req[r].id = p.id
                /\ req[r].authed /\ req[r].made /\ req[r].complete
                /\ req[r].status = 0
       /\ \A r \in Slots :
            (req'[r].kind = "new" /\ req'[r].status = 200 /\ req[r].status # 200)
            => /\ req[r].authed /\ req[r].made /\ req[r].complete
               /\ \E p \in pastes' :
                    /\ p.id = req[r].id
                    /\ req'[r].body = <<"base_url", "/paste/">> \o p.filename
       /\ \A p \in pastes \ pastes' :
            \E r \in Slots :
                /\ req[r].kind = "delete" /\ req[r].id = p.id
                /\ req[r].authed /\ ~req[r].didPop /\ req[r].status = 0
       /\ \A f \in DOMAIN files \ DOMAIN files' :
            \E r \in Slots :
                /\ req[r].kind = "delete" /\ req[r].authed /\ req[r].didPop
                /\ req[r].filename = f /\ req[r].status = 0
                /\ RowsWithId(req[r].id) = {}
       /\ \A r \in Slots :
            (req'[r].kind = "delete" /\ req'[r].status = 200
               /\ req[r].status # 200)
            => /\ req[r].authed /\ req[r].didPop
               /\ req[r].filename \in DOMAIN files
               /\ req[r].filename \notin DOMAIN files']_vars

\* An upload was answered 200 and a delete of its paste was answered 200.
C14_Witness ==
    \E r, s \in Slots :
        /\ req[r].kind = "new" /\ req[r].status = 200 /\ req[r].complete
        /\ req[s].kind = "delete" /\ req[s].status = 200 /\ req[s].didPop
        /\ req[s].id = req[r].id /\ req[s].filename = req[r].filename

\* C15: in every reachable state of every interleaving of create, delete and
\* serve requests, failed and cancelled ones included, every pastes row has
\* its file in the storage directory.
C15_RowHasFile ==
    \A p \in pastes : p.filename \in DOMAIN files

\* After a failure or a disconnect: a paste is stored with its file, while a
\* delete of another paste has removed the row and not yet unlinked the file.
C15_Witness ==
    \E r \in Slots :
        /\ dirty
        /\ req[r].kind = "delete" /\ req[r].pc = "unlink"
        /\ req[r].filename \in DOMAIN files
        /\ \E p \in pastes : p.filename \in DOMAIN files

\* Authenticated uploads that failed after their filename was built: in
\* stream_to_file (creating the file, reading the body, writing the file) or
\* in the INSERT.
FailedCreate(t) ==
    /\ t.kind = "new" /\ t.authed /\ t.pc = "done"
    /\ t.filename # <<>> /\ t.status # 200

\* C16: no rollback on create.  An authenticated POST /new that fails during
\* the streaming ingest or during the INSERT responds 500 with an empty
\* body, no pastes row has its id, and the file it created is still in the
\* storage directory: a prefix of the body it streamed, the whole body when
\* the copy had finished.
C16_NoRollbackOnCreate ==
    \A r \in Slots :
        FailedCreate(req[r])
        => /\ req[r].status = 500 /\ req[r].body = <<>>
           /\ RowsWithId(req[r].id) = {}
           /\ req[r].made
                => /\ req[r].filename \in DOMAIN files
                   /\ IsPrefix(files[req[r].filename], req[r].sent)
                   /\ req[r].complete => files[req[r].filename] = req[r].sent

\* One upload failed at the INSERT and left its complete file, another
\* failed while streaming and left a partial file.
C16_Witness ==
    \E r, s \in Slots :
        /\ FailedCreate(req[r]) /\ req[r].complete
        /\ files[req[r].filename] = req[r].sent /\ Len(req[r].sent) = 2
        /\ FailedCreate(req[s]) /\ req[s].made /\ ~req[s].complete
        /\ Len(files[req[s].filename]) < Len(req[s].sent)

\* C17: when the unlink of an authenticated DELETE /delete fails after the
\* row was removed, the request responds 500 with an empty body and no row
\* has its id: the row is not put back, neither then nor later, and a
\* repeated authenticated DELETE for the same id responds 404 (its own
\* storage failures aside).
C17_RowStaysDeleted ==
    /\ \A r \in Slots :
         (/\ req[r].kind = "delete" /\ req[r].didPop
          /\ req[r].pc = "done" /\ req[r].status # 200)
         => /\ req[r].status = 500 /\ req[r].body = <<>>
            /\ RowsWithId(req[r].id) = {}
    /\ \A id \in popped : RowsWithId(id) = {}
    /\ \A s \in Slots :
         (/\ req[s].kind = "delete" /\ req[s].seen = "failed"
          /\ req[s].authed /\ req[s].pc = "done" /\ ~req[s].fault)
         => req[s].status = 404

\* The unlink of a delete failed (500) with the file left behind, and a
\* second delete of the same id, arrived after that, was answered 404.
C17_Witness ==
    \E r, s \in Slots :
        /\ req[r].kind = "delete" /\ req[r].didPop
        /\ req[r].pc = "done" /\ req[r].status = 500
        /\ req[r].filename \in DOMAIN files
        /\ req[s].kind = "delete" /\ req[s].id = req[r].id
        /\ req[s].seen = "failed" /\ req[s].status = 404

\* Uploads whose client disconnected while the body was being received:
\* the task was dropped before its copy had finished.
DroppedUpload(t) == t.kind = "new" /\ t.pc = "dropped" /\ ~t.complete

\* C18: when the client disconnects during an upload, the task stops at the
\* await it is suspended at: no response and no URL is produced, no pastes
\* row has the upload's id, and the file it had created stays in the storage
\* directory with the part of the body written so far.
C18_DisconnectLeavesPartial ==
    \A r \in Slots :
        DroppedUpload(req[r])
        => /\ req[r].status = 0 /\ req[r].body = <<>>
           /\ RowsWithId(req[r].id) = {}
           /\ req[r].made
                => /\ req[r].filename \in DOMAIN files
                   /\ IsPrefix(files[req[r].filename], req[r].sent)

\* The client disconnected after two chunks: the first chunk is in the
\* file, the second was still in the writer's buffer.
C18_Witness ==
    \E r \in Slots :
        /\ DroppedUpload(req[r]) /\ req[r].made
        /\ Len(req[r].sent) = 2
        /\ Len(files[req[r].filename]) = 1

\* Requests whose token has two or more rows in the tokens table.
DuplicateToken(t) == IsRequest(t) /\ CountToken(tokens, t.token) >= 2

C20_UnlinksReturnedOnly ==
    [][\A r \in Slots :
         (req[r].kind = "delete" /\ req'[r] # req[r])
         => /\ pastes' \subseteq pastes
            /\ \A p \in pastes \ pastes' : p.id = req[r].id /\ ~req[r].didPop
            /\ (~req[r].didPop /\ req'[r].didPop)
                 => /\ req'[r].filename
                         \in {p.filename : p \in RowsWithId(req[r].id)}
                    /\ pastes' = pastes \ RowsWithId(req[r].id)
            /\ (req[r].didPop /\ req'[r].kind = "delete")
                 => req'[r].filename = req[r].filename
            /\ DOMAIN files' \subseteq DOMAIN files
            /\ \A f \in DOMAIN files \ DOMAIN files' :
                 req[r].didPop /\ f = req[r].filename
            /\ \A f \in DOMAIN files' : files'[f] = files[f]]_vars

\* Two files carry the id u1, "u1" and "u1.t"; the row named "u1.t", the
\* delete of u1 unlinked "u1.t" and left "u1".
C20_Witness ==
    \E r \in Slots :
        /\ req[r].kind = "delete" /\ req[r].status = 200
        /\ req[r].filename = <<req[r].id, ".", "t">>
        /\ req[r].filename \notin DOMAIN files
        /\ <<req[r].id>> \in DOMAIN files

====
